---- MODULE Spec2Model ----
(***************************************************************************)
(* A model of the entity-component core of spaceship-alpha: the entity     *)
(* registry and component storages (specs), the Model-Sync system, the     *)
(* deferred-removal flush (ECS::maintain), the asteroid field spawner and  *)
(* the gadget systems (miner, laser, cooler).                               *)
(*                                                                         *)
(* Numbers: positions are integers (one unit = 1.0), heat is an integer    *)
(* count of hundredths (0.3 = 30, 0.13 = 13), one tick is one dt.           *)
(***************************************************************************)
EXTENDS Integers, Sequences, FiniteSets, TLC

VARIABLES
    generations,      \* entity registry: id -> number of allocations of that id
    alive,            \* entity registry: ids whose current generation is alive
    killed,           \* entity registry: ids deleted atomically, pending merge
    cache,            \* entity registry: recycled ids (popped from the end)
    lazy,             \* LazyUpdate: component inserts queued until world.maintain
    models,           \* Model storage: id -> [mesh_id, model_id]
    transforms,       \* Transform storage: id -> [x, y, rot]
    bodies,           \* RigidBody storage: id -> velocity along x
    colliders,        \* Collider storage: id -> category
    model_events,     \* Model channel: Inserted ids not yet read by model_reader
    transform_events, \* Transform channel: Modified ids not yet read
    mesh_manager,     \* MeshManager: handle -> [mesh_id, matrix, owner]
    to_be_removed,    \* EcsUtils::to_be_removed
    field,            \* the AsteroidField component
    schedule,         \* the dispatcher's system order
    calls,            \* log of the calls made by the last operation
    mark_calls,       \* number of mark_for_removal calls per entity since the last flush
    panicked,         \* the process aborted in an expect/unwrap
    input,            \* InputManager: [action, target]
    miners,           \* Miner storage: shoot_time of each mining turret
    lasers,           \* Laser storage: whether each laser's GadgetEntity leads to a ship
    coolers,          \* Cooler storage: whether each cooler's GadgetEntity leads to a ship
    lines,            \* Line storage: the lasers that carry a beam line
    heat,             \* Ship::heat, in hundredths
    health,           \* Health of the target that has one
    rotation,         \* rotation last written to each kind of turret
    missiles,         \* last MinerSystem run: <<miner, runs since its previous missile>>
    since_shot,       \* per miner: MinerSystem runs since the run of its last missile
    last_run,         \* the gadget system that ran last
    before            \* heat, health and lines as they were before that run

gadgetVars == <<input, miners, lasers, coolers, lines, heat, health, rotation,
                missiles, since_shot, last_run, before>>

storeVars == <<generations, alive, killed, cache, lazy, models, transforms, bodies,
               colliders, model_events, transform_events, mesh_manager,
               to_be_removed, field, schedule, calls, mark_calls>>

vars == <<storeVars, panicked, gadgetVars>>

\* ------------------------------------------------------------------ bounds
MaxEnt == 3          \* entity ids are 1..MaxEnt
MaxCreate == 4       \* entities ever allocated (two by ECS::new)
FieldMaxCreate == 32 \* entities ever allocated in the asteroid field's world
MaxMiners == 1       \* mining turrets built
MaxLasers == 1       \* lasers built
MaxCoolers == 2      \* coolers built
MaxHeat == 60        \* the laser stops firing above this heat (hundredths)
MaxPos == 2          \* physics steps an asteroid may drift before ticks stop
MaxMarks == 2        \* mark_for_removal calls on one entity between two flushes
MaxQueue == 2        \* entities marked one by one between two flushes

Ids == 1..MaxEnt

\* ------------------------------------------------------------- constants
None == 0                  \* Option::None of Model::model_id
AsteroidVelocity == 1      \* Asteroid::VELOCITY, per tick
X_RANGE == 15              \* AsteroidField::x_range
MAX_LEVEL == 30            \* max_level
TICK_BASE == 200
TICK_FACTOR == 6
ATTACK_BIAS == 5
ATTACK_DRAWS == 4

\* --------------------------------------------------------------- helpers
Min(S) == CHOOSE x \in S : \A y \in S : x <= y

Range(s) == {s[i] : i \in 1..Len(s)}

RECURSIVE SortedSeq(_)
SortedSeq(S) == IF S = {} THEN <<>> ELSE <<Min(S)>> \o SortedSeq(S \ {Min(S)})

\* A storage is a partial function from ids to component values.
Insert(st, id, v) == [i \in DOMAIN st \cup {id} |-> IF i = id THEN v ELSE st[i]]
Drop(st, S) == [i \in DOMAIN st \ S |-> st[i]]
Empty == [i \in {} |-> 0]

\* One entry of the call log: the operation, the entity, the render handle.
Call(op, e, h) == [op |-> op, e |-> e, h |-> h, n |-> 0]

World ==
    [generations |-> generations, alive |-> alive, killed |-> killed, cache |-> cache,
     lazy |-> lazy, models |-> models, transforms |-> transforms, bodies |-> bodies,
     colliders |-> colliders, model_events |-> model_events,
     transform_events |-> transform_events, mesh_manager |-> mesh_manager,
     to_be_removed |-> to_be_removed, field |-> field, calls |-> calls,
     mark_calls |-> mark_calls, panicked |-> panicked]

SetWorldInit(w) ==
    /\ generations = w.generations
    /\ alive = w.alive
    /\ killed = w.killed
    /\ cache = w.cache
    /\ lazy = w.lazy
    /\ models = w.models
    /\ transforms = w.transforms
    /\ bodies = w.bodies
    /\ colliders = w.colliders
    /\ model_events = w.model_events
    /\ transform_events = w.transform_events
    /\ mesh_manager = w.mesh_manager
    /\ to_be_removed = w.to_be_removed
    /\ field = w.field
    /\ calls = w.calls
    /\ mark_calls = w.mark_calls
    /\ panicked = w.panicked

SetWorld(w) ==
    /\ generations' = w.generations
    /\ alive' = w.alive
    /\ killed' = w.killed
    /\ cache' = w.cache
    /\ lazy' = w.lazy
    /\ models' = w.models
    /\ transforms' = w.transforms
    /\ bodies' = w.bodies
    /\ colliders' = w.colliders
    /\ model_events' = w.model_events
    /\ transform_events' = w.transform_events
    /\ mesh_manager' = w.mesh_manager
    /\ to_be_removed' = w.to_be_removed
    /\ field' = w.field
    /\ calls' = w.calls
    /\ mark_calls' = w.mark_calls
    /\ panicked' = w.panicked

\* ------------------------------------------------------- entity registry
\* An Entity is <<id, generation>>.
IsAlive(w, e) == e[1] \in w.alive /\ w.generations[e[1]] = e[2]

CurrentEntity(w, id) == <<id, w.generations[id]>>

HasFreeId(w) == Len(w.cache) > 0 \/ \E i \in Ids : w.generations[i] = 0

NextId(w) ==
    IF Len(w.cache) > 0 THEN w.cache[Len(w.cache)]
    ELSE Min({i \in Ids : w.generations[i] = 0})

RECURSIVE Sum(_, _)
Sum(f, S) == IF S = {} THEN 0 ELSE LET i == Min(S) IN f[i] + Sum(f, S \ {i})

\* Entities allocated so far; the actions stop creating entities at a cap.
Allocations(w) == Sum(w.generations, Ids)

CanCreate(w, cap) == HasFreeId(w) /\ Allocations(w) < cap

\* Entities::create / World::create_entity: take a recycled id, else a fresh one.
Allocate(w) ==
    LET i == NextId(w) IN
    [w EXCEPT !.cache = IF Len(@) > 0 THEN SubSeq(@, 1, Len(@) - 1) ELSE @,
              !.generations[i] = @ + 1,
              !.alive = @ \cup {i}]

\* --------------------------------------------------------- mesh manager
NewHandle(mm) == Min((1..(Cardinality(DOMAIN mm) + 1)) \ DOMAIN mm)

as_matrix(t) == <<t.x, t.y, t.rot>>

\* ---------------------------------------------------------- Model-Sync
\* A variant that requests the handle and does not store it on the Model.
RECURSIVE InsertedPassNoStore(_, _)
InsertedPassNoStore(w, ids) ==
    IF ids = <<>> THEN w
    ELSE LET id == Head(ids)
             h == NewHandle(w.mesh_manager)
         IN InsertedPassNoStore(
                [w EXCEPT !.mesh_manager =
                              Insert(@, h, [mesh_id |-> w.models[id].mesh_id,
                                            matrix |-> as_matrix(w.transforms[id]),
                                            owner |-> CurrentEntity(w, id)]),
                          !.calls = Append(@, Call("new_model", CurrentEntity(w, id), h))],
                Tail(ids))

RECURSIVE InsertedPass(_, _)
InsertedPass(w, ids) ==
    IF ids = <<>> THEN w
    ELSE LET id == Head(ids)
             h == NewHandle(w.mesh_manager)
             m == w.models[id]
         IN InsertedPass(
                [w EXCEPT !.mesh_manager =
                              Insert(@, h, [mesh_id |-> m.mesh_id,
                                            matrix |-> as_matrix(w.transforms[id]),
                                            owner |-> CurrentEntity(w, id)]),
                          !.models[id].model_id = h,
                          !.calls = Append(@, Call("new_model", CurrentEntity(w, id), h))],
                Tail(ids))

RECURSIVE ModifiedPass(_, _)
ModifiedPass(w, ids) ==
    IF ids = <<>> THEN w
    ELSE LET id == Head(ids)
             m == w.models[id]
         IN IF m.model_id = None THEN ModifiedPass(w, Tail(ids))
            ELSE ModifiedPass(
                [w EXCEPT !.mesh_manager =
                              IF m.model_id \in DOMAIN @
                              THEN [@ EXCEPT ![m.model_id].matrix =
                                                 as_matrix(w.transforms[id])]
                              ELSE @,
                          !.calls = Append(@, Call("update_model", CurrentEntity(w, id),
                                                   m.model_id))],
                Tail(ids))

\* The log entries of reading the Model channel: one per Inserted(id) event.
ReadEvents(events) == [i \in 1..Len(events) |-> Call("inserted", <<events[i], 0>>, None)]

\* A variant that ignores the Inserted events and creates a handle for every Model.
ModelUpdateSystemNoEvents(w) ==
    LET modified == Range(w.transform_events)
        joined == DOMAIN w.models \cap DOMAIN w.transforms
        w1 == [w EXCEPT !.model_events = <<>>, !.transform_events = <<>>,
                        !.calls = @ \o ReadEvents(w.model_events)]
        w2 == InsertedPass(w1, SortedSeq(joined))
    IN ModifiedPass(w2, SortedSeq(joined \cap modified))

\* A variant that handles the modifications before the insertions.
ModelUpdateSystemModifiedFirst(w) ==
    LET inserted == Range(w.model_events)
        modified == Range(w.transform_events)
        joined == DOMAIN w.models \cap DOMAIN w.transforms
        w1 == [w EXCEPT !.model_events = <<>>, !.transform_events = <<>>,
                        !.calls = @ \o ReadEvents(w.model_events)]
        w2 == ModifiedPass(w1, SortedSeq(joined \cap modified))
    IN InsertedPass(w2, SortedSeq(joined \cap inserted))

ModelUpdateSystem(w) ==
    LET inserted == Range(w.model_events)
        modified == Range(w.transform_events)
        joined == DOMAIN w.models \cap DOMAIN w.transforms
        w1 == [w EXCEPT !.model_events = <<>>, !.transform_events = <<>>,
                        !.calls = @ \o ReadEvents(w.model_events)]
        w2 == InsertedPass(w1, SortedSeq(joined \cap inserted))
    IN ModifiedPass(w2, SortedSeq(joined \cap modified))

\* ------------------------------------------------------------- physics
RECURSIVE PhysicsPass(_, _)
PhysicsPass(w, ids) ==
    IF ids = <<>> THEN w
    ELSE LET id == Head(ids) IN
         PhysicsPass([w EXCEPT !.transforms[id].x = @ + w.bodies[id],
                               !.transform_events = Append(@, id)],
                     Tail(ids))

PhysicsSystem(w) == PhysicsPass(w, SortedSeq(DOMAIN w.transforms \cap DOMAIN w.bodies))

\* ---------------------------------------------------- deferred removal
InSeq(s, x) == \E i \in 1..Len(s) : s[i] = x

Marks(w, e) == IF e \in DOMAIN w.mark_calls THEN w.mark_calls[e] ELSE 0

\* A variant that pushes without looking for a duplicate.
mark_for_removal_push(w, e) ==
    [w EXCEPT !.mark_calls = Insert(@, e, Marks(w, e) + 1),
              !.to_be_removed = Append(@, e)]

mark_for_removal(w, e) ==
    LET w1 == [w EXCEPT !.mark_calls = Insert(@, e, Marks(w, e) + 1)] IN
    IF InSeq(w.to_be_removed, e) THEN w1
    ELSE [w1 EXCEPT !.to_be_removed = Append(@, e)]

\* Storage::get_mut(entity): absent for a dead or stale entity.
GetModel(w, e) == IsAlive(w, e) /\ e[1] \in DOMAIN w.models

\* A variant that clears the handle on the Model without asking for its release.
ReleaseModelNoCall(w, e) == [w EXCEPT !.models[e[1]].model_id = None]

ReleaseModel(w, e) ==
    LET id == e[1]
        h == w.models[id].model_id
    IN [w EXCEPT !.mesh_manager = Drop(@, {h}),
                 !.models[id].model_id = None,
                 !.calls = Append(@, Call("remove_model", e, h))]

\* Entities::delete: an atomic kill; the entity stays alive until the merge.
DeleteEntity(w, e) ==
    [w EXCEPT !.killed = @ \cup {e[1]},
              !.calls = Append(@, [op |-> "delete", e |-> e,
                                   h |-> IF e[1] \in DOMAIN w.models
                                         THEN w.models[e[1]].model_id ELSE None,
                                   n |-> Marks(w, e)])]

\* A variant that skips a queued entity that is no longer alive.
FlushEntitySkipStale(w, e) ==
    LET w1 == IF GetModel(w, e) /\ w.models[e[1]].model_id # None
              THEN ReleaseModel(w, e) ELSE w
    IN IF IsAlive(w1, e) THEN DeleteEntity(w1, e) ELSE w1

\* A variant that deletes the entity without releasing its render handle.
FlushEntityNoRelease(w, e) ==
    IF IsAlive(w, e) THEN DeleteEntity(w, e) ELSE [w EXCEPT !.panicked = TRUE]

FlushEntity(w, e) ==
    LET w1 == IF GetModel(w, e) /\ w.models[e[1]].model_id # None
              THEN ReleaseModel(w, e) ELSE w
    IN IF IsAlive(w1, e) THEN DeleteEntity(w1, e)
       ELSE [w1 EXCEPT !.panicked = TRUE]

RECURSIVE FlushLoop(_, _)
FlushLoop(w, i) ==
    IF i > Len(w.to_be_removed) \/ w.panicked THEN w
    ELSE FlushLoop(FlushEntity(w, w.to_be_removed[i]), i + 1)

\* LazyUpdate::maintain: run the queued component inserts of lazily built entities.
RECURSIVE LazyMaintain(_, _)
LazyMaintain(w, i) ==
    IF i > Len(w.lazy) THEN [w EXCEPT !.lazy = <<>>]
    ELSE LET b == w.lazy[i]
             id == b.e[1]
         IN IF ~IsAlive(w, b.e) THEN LazyMaintain(w, i + 1)
            ELSE LazyMaintain(
                     [w EXCEPT !.transforms = Insert(@, id, b.transform),
                               !.models = Insert(@, id, b.model),
                               !.model_events = Append(@, id),
                               !.bodies = Insert(@, id, b.velocity),
                               !.colliders = Insert(@, id, b.collider)],
                     i + 1)

\* World::maintain: merge the atomic kills, drop their components, run lazy updates.
WorldMaintain(w) ==
    LET dead == w.killed
        w1 == [w EXCEPT !.alive = @ \ dead,
                        !.killed = {},
                        !.cache = @ \o SortedSeq(dead),
                        !.models = Drop(@, dead),
                        !.transforms = Drop(@, dead),
                        !.bodies = Drop(@, dead),
                        !.colliders = Drop(@, dead),
                        !.calls = Append(@, Call("maintain", <<0, 0>>, None))]
    IN LazyMaintain(w1, 1)

\* A variant that runs the store's housekeeping before the flush.
maintain_housekeeping_first(w) ==
    LET w1 == FlushLoop(WorldMaintain(w), 1) IN
    IF w1.panicked THEN w1
    ELSE [w1 EXCEPT !.to_be_removed = <<>>, !.mark_calls = Empty]

\* A variant that forgets to clear the queue after the loop.
maintain_no_clear(w) ==
    LET w1 == FlushLoop(w, 1) IN
    IF w1.panicked THEN w1 ELSE WorldMaintain(w1)

maintain(w) ==
    LET w1 == FlushLoop(w, 1) IN
    IF w1.panicked THEN w1
    ELSE WorldMaintain([w1 EXCEPT !.to_be_removed = <<>>, !.mark_calls = Empty])

\* ------------------------------------------------------- field spawner
Abs(x) == IF x < 0 THEN -x ELSE x

U16 == 65536

NoField == [present |-> FALSE, asteroids |-> <<>>, tick |-> 0, level |-> 0]

\* A variant that keeps every roster entry.
RetainAll(w, s) == s

RECURSIVE RetainAlive(_, _)
RetainAlive(w, s) ==
    IF s = <<>> THEN <<>>
    ELSE IF IsAlive(w, Head(s)) THEN <<Head(s)>> \o RetainAlive(w, Tail(s))
         ELSE RetainAlive(w, Tail(s))

\* ReadStorage::get(entity): absent for a dead entity or one without the component.
GetTransform(w, e) == IsAlive(w, e) /\ e[1] \in DOMAIN w.transforms

OutOfRange(w, e) == Abs(w.transforms[e[1]].x) > X_RANGE

\* ToBeRemoved::add: the removal queue as the spawner reaches it; marks coalesce.
to_be_removed_add(w, e) == mark_for_removal(w, e)

RECURSIVE MarkOutOfRange(_, _)
MarkOutOfRange(w, i) ==
    IF i > Len(w.field.asteroids) \/ w.panicked THEN w
    ELSE LET a == w.field.asteroids[i] IN
         IF ~GetTransform(w, a) THEN [w EXCEPT !.panicked = TRUE]
         ELSE MarkOutOfRange(IF OutOfRange(w, a) THEN to_be_removed_add(w, a) ELSE w, i + 1)

\* A variant without the cap.
NextLevelNoCap(level) == level + 1

NextLevel(level) == IF level < MAX_LEVEL THEN level + 1 ELSE level

\* A variant that resets the countdown to the base, whatever the level.
ResetTickNoLevel(level) == TICK_BASE % U16

\* A variant whose factor is one too large: the subtraction wraps at high levels.
ResetTickWraps(level) == (TICK_BASE - level * (TICK_FACTOR + 1)) % U16

ResetTick(level) == (TICK_BASE - level * TICK_FACTOR) % U16

\* The exclusive upper end of the draw that picks the trajectory.
\* A variant whose range grows with the level.
DrawRangeGrowing(level) == level + ATTACK_BIAS

DrawRange(level) == MAX_LEVEL - level + ATTACK_BIAS

IsAttack(draw) == draw < ATTACK_DRAWS

SpawnTransform(draw) ==
    [x |-> -X_RANGE, y |-> IF IsAttack(draw) THEN "attack" ELSE "passive",
     rot |-> "random"]

NewModel(mesh_id) == [mesh_id |-> mesh_id, model_id |-> None]

SpawnAsteroid(w, draw) ==
    LET level == NextLevel(w.field.level)
        e == <<NextId(w), w.generations[NextId(w)] + 1>>
        w1 == Allocate(w)
    IN [w1 EXCEPT !.field.level = level,
                  !.field.tick = ResetTick(level),
                  !.field.asteroids = Append(@, e),
                  !.lazy = Append(@, [e |-> e, transform |-> SpawnTransform(draw),
                                      model |-> NewModel("asteroid"),
                                      velocity |-> AsteroidVelocity,
                                      collider |-> "asteroid"]),
                  !.calls = Append(@, Call("spawn", e, None))]

\* A variant that spawns without waiting for the countdown.
CountdownNoWait(w, draw) == SpawnAsteroid(w, draw)

Countdown(w, draw) ==
    IF w.field.tick > 0 THEN [w EXCEPT !.field.tick = @ - 1]
    ELSE SpawnAsteroid(w, draw)

\* A variant that stops at a positive countdown before looking at the roster.
AsteroidFieldSystemStopEarly(w, draw) ==
    IF w.field.tick > 0 THEN [w EXCEPT !.field.tick = @ - 1]
    ELSE LET w1 == [w EXCEPT !.field.asteroids = RetainAlive(w, @)]
             w2 == MarkOutOfRange(w1, 1)
         IN IF w2.panicked THEN w2 ELSE SpawnAsteroid(w2, draw)

AsteroidFieldSystem(w, draw) ==
    LET w1 == [w EXCEPT !.field.asteroids = RetainAlive(w, @)]
        w2 == MarkOutOfRange(w1, 1)
    IN IF w2.panicked THEN w2 ELSE Countdown(w2, draw)

\* ----------------------------------------------------------- dispatcher
RunSystem(name, w, draw) ==
    CASE name = "physics_system" -> PhysicsSystem(w)
      [] name = "update_models" -> ModelUpdateSystem(w)
      [] name = "asteroid_field" -> AsteroidFieldSystem(w, draw)

RECURSIVE dispatch(_, _, _)
dispatch(w, systems, draw) ==
    IF systems = <<>> \/ w.panicked THEN w
    ELSE dispatch(RunSystem(Head(systems), w, draw), Tail(systems), draw)

update(w, systems, draw) ==
    LET w1 == dispatch([w EXCEPT !.calls = Append(@, Call("update", <<0, 0>>, None))],
                       systems, draw) IN
    IF w1.panicked THEN w1 ELSE maintain(w1)

\* ------------------------------------------------------ gadget systems
TOTAL_TIME == 120          \* Miner::TOTAL_TIME
LASER_HEAT == 30           \* ship.heat += 0.3
LASER_DAMAGE == 1          \* health.damage(1)
COOL_RATE == 13            \* cool_rate = 0.13
HEALTH == 10               \* Asteroid::HEALTH

NoTarget == "none"

\* The entities input.target can name: an asteroid (Transform and Health), a
\* ship (Transform, no Health) and an entity that was deleted (no components).
Targets == {"asteroid", "ship", "deleted"}

HasTransform(t) == t \in {"asteroid", "ship"}

HasHealth(t) == t = "asteroid"

Actions == {"None", "Mining", "Laser"}

Gadgets ==
    [miners |-> miners, lasers |-> lasers, coolers |-> coolers, lines |-> lines,
     heat |-> heat, health |-> health, rotation |-> rotation, missiles |-> missiles,
     since_shot |-> since_shot, panicked |-> panicked]

\* since_shot counts up to LongAgo ("this long ago or longer"); Never: no missile yet.
LongAgo == TOTAL_TIME + 3

Never == LongAgo + 1

Later(n) == IF n < LongAgo THEN n + 1 ELSE n

\* A variant that forgets to reset the counter after a missile.
RECURSIVE MinerLoopNoReset(_, _, _)
MinerLoopNoReset(g, inp, i) ==
    IF i > Len(g.miners) THEN g
    ELSE LET g1 == [g EXCEPT !.rotation.miner = "pi"] IN
         IF g.miners[i] > TOTAL_TIME
         THEN IF inp.action = "Mining" /\ inp.target # NoTarget
              THEN MinerLoopNoReset(
                       [g1 EXCEPT !.missiles = @ \cup {<<i, Later(g.since_shot[i])>>},
                                  !.since_shot[i] = 0],
                       inp, i + 1)
              ELSE MinerLoopNoReset([g1 EXCEPT !.since_shot[i] = Later(@)], inp, i + 1)
         ELSE MinerLoopNoReset([g1 EXCEPT !.miners[i] = @ + 1,
                                          !.since_shot[i] = Later(@)],
                               inp, i + 1)

\* A variant that keeps counting while it waits for the command.
RECURSIVE MinerLoopNoHold(_, _, _)
MinerLoopNoHold(g, inp, i) ==
    IF i > Len(g.miners) THEN g
    ELSE LET g1 == [g EXCEPT !.rotation.miner = "pi"] IN
         IF g.miners[i] > TOTAL_TIME /\ inp.action = "Mining" /\ inp.target # NoTarget
         THEN MinerLoopNoHold(
                  [g1 EXCEPT !.miners[i] = 0,
                             !.missiles = @ \cup {<<i, Later(g.since_shot[i])>>},
                             !.since_shot[i] = 0],
                  inp, i + 1)
         ELSE MinerLoopNoHold([g1 EXCEPT !.miners[i] = (@ + 1) % U16,
                                         !.since_shot[i] = Later(@)],
                              inp, i + 1)

RECURSIVE MinerLoop(_, _, _)
MinerLoop(g, inp, i) ==
    IF i > Len(g.miners) THEN g
    ELSE LET g1 == [g EXCEPT !.rotation.miner = "pi"] IN
         IF g.miners[i] > TOTAL_TIME
         THEN IF inp.action = "Mining" /\ inp.target # NoTarget
              THEN MinerLoop([g1 EXCEPT !.miners[i] = 0,
                                        !.missiles = @ \cup {<<i, Later(g.since_shot[i])>>},
                                        !.since_shot[i] = 0],
                             inp, i + 1)
              ELSE MinerLoop([g1 EXCEPT !.since_shot[i] = Later(@)], inp, i + 1)
         ELSE MinerLoop([g1 EXCEPT !.miners[i] = @ + 1,
                                   !.since_shot[i] = Later(@)],
                        inp, i + 1)

MinerSystem(g, inp) == MinerLoop([g EXCEPT !.missiles = {}], inp, 1)

\* if Some(target) == raycast || true
HitGate(raycast, target) == raycast = target \/ TRUE

Damage(h, amount) == h - amount

\* A variant that draws the beam and damages the target without heating the ship.
LaserFireNoHeat(g, inp, i) ==
    [g EXCEPT !.rotation.laser = "aim",
              !.lines = @ \cup {i},
              !.health = IF HasHealth(inp.target) THEN Damage(@, LASER_DAMAGE) ELSE @]

LaserFire(g, inp, i) ==
    [g EXCEPT !.rotation.laser = "aim",
              !.lines = @ \cup {i},
              !.heat = IF g.lasers[i] THEN @ + LASER_HEAT ELSE @,
              !.health = IF HasHealth(inp.target) THEN Damage(@, LASER_DAMAGE) ELSE @]

RECURSIVE LaserLoop(_, _, _, _)
LaserLoop(g, inp, raycast, i) ==
    IF i > Len(g.lasers) \/ g.panicked THEN g
    ELSE IF inp.target # NoTarget
         THEN IF ~HasTransform(inp.target) THEN [g EXCEPT !.panicked = TRUE]
              ELSE IF HitGate(raycast, inp.target)
                   THEN LaserLoop(LaserFire(g, inp, i), inp, raycast, i + 1)
                   ELSE LaserLoop([g EXCEPT !.lines = @ \ {i}], inp, raycast, i + 1)
         ELSE LaserLoop([g EXCEPT !.lines = @ \ {i}], inp, raycast, i + 1)

LaserSystem(g, inp, raycast) ==
    IF inp.action # "Laser" THEN g
    ELSE LaserLoop(g, inp, raycast, 1)

\* A variant that subtracts the rate without the floor at zero.
RECURSIVE CoolerLoopNoFloor(_, _)
CoolerLoopNoFloor(g, i) ==
    IF i > Len(g.coolers) THEN g
    ELSE IF g.coolers[i] /\ g.heat > 0
         THEN CoolerLoopNoFloor([g EXCEPT !.heat = @ - COOL_RATE], i + 1)
         ELSE CoolerLoopNoFloor(g, i + 1)

RECURSIVE CoolerLoop(_, _)
CoolerLoop(g, i) ==
    IF i > Len(g.coolers) THEN g
    ELSE IF g.coolers[i] /\ g.heat > 0
         THEN CoolerLoop([g EXCEPT !.heat = IF @ < COOL_RATE THEN 0 ELSE @ - COOL_RATE],
                         i + 1)
         ELSE CoolerLoop(g, i + 1)

\* A variant whose coolers subtract the rate without the floor at zero.
CoolerSystemNoFloor(g) == CoolerLoopNoFloor(g, 1)

\* A variant that cools a ship once per run, however many coolers it carries.
CoolerSystemOnce(g) ==
    IF g.heat > 0 /\ \E i \in 1..Len(g.coolers) : g.coolers[i]
    THEN [g EXCEPT !.heat = IF @ < COOL_RATE THEN 0 ELSE @ - COOL_RATE]
    ELSE g

CoolerSystem(g) == CoolerLoop(g, 1)

NoGadgets ==
    /\ input = [action |-> "None", target |-> NoTarget]
    /\ miners = <<>>
    /\ lasers = <<>>
    /\ coolers = <<>>
    /\ lines = {}
    /\ heat = 0
    /\ health = HEALTH
    /\ rotation = [miner |-> "zero", laser |-> "zero"]
    /\ missiles = {}
    /\ since_shot = <<>>
    /\ last_run = "none"
    /\ before = [heat |-> 0, health |-> HEALTH, lines |-> {}]

\* ------------------------------------------------------ world bootstrap
NewTransform(x) == [x |-> x, y |-> "passive", rot |-> "zero"]

create_ship(w) ==
    LET id == NextId(w) IN
    [Allocate(w) EXCEPT !.transforms = Insert(@, id, NewTransform(0))]

create_asteroid(w) ==
    LET id == NextId(w) IN
    [Allocate(w) EXCEPT !.transforms = Insert(@, id, NewTransform(0)),
                        !.models = Insert(@, id, NewModel("asteroid")),
                        !.model_events = Append(@, id),
                        !.bodies = Insert(@, id, AsteroidVelocity),
                        !.colliders = Insert(@, id, "asteroid")]

EmptyWorld ==
    [generations |-> [i \in Ids |-> 0], alive |-> {}, killed |-> {}, cache |-> <<>>,
     lazy |-> <<>>, models |-> Empty, transforms |-> Empty, bodies |-> Empty,
     colliders |-> Empty, model_events |-> <<>>, transform_events |-> <<>>,
     mesh_manager |-> Empty, to_be_removed |-> <<>>, field |-> NoField,
     calls |-> <<>>, mark_calls |-> Empty, panicked |-> FALSE]

ECS_new == create_asteroid(create_ship(EmptyWorld))

Init ==
    /\ SetWorldInit(ECS_new)
    /\ schedule = <<"physics_system", "update_models">>
    /\ NoGadgets

\* ------------------------------------------------------------- actions
Fresh(w) == [w EXCEPT !.calls = <<>>]

\* fixed_update: ECS::update, one tick.
Update ==
    /\ ~panicked
    /\ \A id \in DOMAIN bodies : transforms[id].x + bodies[id] <= MaxPos * AsteroidVelocity
    /\ SetWorld(update(Fresh(World), schedule, 0))
    /\ UNCHANGED <<schedule, gadgetVars>>

\* click_event with the button pressed and the ray hitting asteroid id.
Click(id) ==
    /\ ~panicked
    /\ id \in alive \cap DOMAIN colliders \cap DOMAIN transforms
    /\ colliders[id] = "asteroid"
    /\ CanCreate(World, MaxCreate)
    /\ SetWorld(maintain(create_asteroid(
                    mark_for_removal(Fresh(World), CurrentEntity(World, id)))))
    /\ UNCHANGED <<schedule, gadgetVars>>

\* ECS::mark_for_removal on a live entity.
MarkForRemoval(id) ==
    /\ ~panicked
    /\ id \in alive
    /\ Marks(World, CurrentEntity(World, id)) < MaxMarks
    /\ SetWorld(mark_for_removal(Fresh(World), CurrentEntity(World, id)))
    /\ UNCHANGED <<schedule, gadgetVars>>

\* objects::create_asteroid called on its own: an entity created with Model and Transform.
CreateAsteroid ==
    /\ ~panicked
    /\ CanCreate(World, MaxCreate)
    /\ SetWorld(create_asteroid(Fresh(World)))
    /\ UNCHANGED <<schedule, gadgetVars>>

Next ==
    \/ Update
    \/ CreateAsteroid
    \/ \E id \in Ids : Click(id)
    \/ \E id \in Ids : MarkForRemoval(id)

Spec == Init /\ [][Next]_vars

\* WriteStorage::<Model>::remove on a live entity whose Model holds a handle. The
\* flagged storage emits Removed(id), which model_reader drops (mod.rs:61-64: only
\* Inserted is kept), so no event is recorded here.
RemoveModel(id) ==
    /\ ~panicked
    /\ id \in alive \cap DOMAIN models
    /\ models[id].model_id # None
    /\ SetWorld([Fresh(World) EXCEPT
                     !.models = Drop(@, {id}),
                     !.calls = Append(@, Call("remove_component",
                                              CurrentEntity(World, id),
                                              models[id].model_id))])
    /\ UNCHANGED <<schedule, gadgetVars>>

RemoveNext == Next \/ \E id \in Ids : RemoveModel(id)

SpecRemove == Init /\ [][RemoveNext]_vars

\* ------------------------------------------- the asteroid field's world
\* gameplay::init_world: a dedicated entity carrying the AsteroidField.
init_world(w) ==
    [Allocate(w) EXCEPT !.field = [present |-> TRUE, asteroids |-> <<>>, tick |-> 0,
                                   level |-> 1]]

\* The orders in which a dispatcher built from these systems can run them:
\* update_models runs after physics_system; the spawner declares no dependency.
Schedules ==
    {<<"physics_system", "update_models", "asteroid_field">>,
     <<"physics_system", "asteroid_field", "update_models">>,
     <<"asteroid_field", "physics_system", "update_models">>}

FieldInit ==
    /\ SetWorldInit(init_world(EmptyWorld))
    /\ schedule \in Schedules
    /\ NoGadgets

\* The values rng.gen_range(0..(max_level - field.level + 5)) can return in this tick.
Draws(w) ==
    IF w.field.tick > 0 THEN {0}
    ELSE 0..(DrawRange(NextLevel(w.field.level)) - 1)

\* fixed_update with the spawner in the dispatcher.
FieldUpdate ==
    /\ ~panicked
    /\ field.tick > 0 \/ CanCreate(World, FieldMaxCreate)
    /\ \E draw \in Draws(World) : SetWorld(update(Fresh(World), schedule, draw))
    /\ UNCHANGED <<schedule, gadgetVars>>

FieldNext == FieldUpdate

SpecField == FieldInit /\ [][FieldNext]_vars

\* --------------------------------------------------- the gadgets' world
SetGadgets(g) ==
    /\ miners' = g.miners
    /\ lasers' = g.lasers
    /\ coolers' = g.coolers
    /\ lines' = g.lines
    /\ heat' = g.heat
    /\ health' = g.health
    /\ rotation' = g.rotation
    /\ missiles' = g.missiles
    /\ since_shot' = g.since_shot
    /\ panicked' = g.panicked

Snapshot == [heat |-> heat, health |-> health, lines |-> lines]

Inputs == [action : Actions, target : Targets \cup {NoTarget}]

GadgetInit ==
    /\ SetWorldInit(EmptyWorld)
    /\ schedule = <<>>
    /\ NoGadgets

\* setup_miner: a mining turret is built, with Miner::default().
PlaceMiner ==
    /\ ~panicked
    /\ Len(miners) < MaxMiners
    /\ SetGadgets([Gadgets EXCEPT !.miners = Append(@, 0),
                                  !.since_shot = Append(@, Never)])
    /\ last_run' = "setup"
    /\ UNCHANGED <<storeVars, input, before>>

\* One tick of MinerSystem under this tick's input.
MinerRun ==
    /\ ~panicked
    /\ \E inp \in Inputs :
        /\ input' = inp
        /\ SetGadgets(MinerSystem(Gadgets, inp))
    /\ last_run' = "miner"
    /\ before' = Snapshot
    /\ UNCHANGED storeVars

MinerNext == PlaceMiner \/ MinerRun

SpecMiner == GadgetInit /\ [][MinerNext]_vars

Owned(s) == Cardinality({i \in 1..Len(s) : s[i]})

\* setup_laser: a laser is built, on a ship or not.
PlaceLaser ==
    /\ ~panicked
    /\ last_run # "laser"
    /\ Len(lasers) < MaxLasers
    /\ \E owned \in BOOLEAN : SetGadgets([Gadgets EXCEPT !.lasers = Append(@, owned)])
    /\ last_run' = "setup"
    /\ UNCHANGED <<storeVars, input, before>>

\* setup_cooler: a cooler is built, on a ship or not.
PlaceCooler ==
    /\ ~panicked
    /\ last_run # "laser"
    /\ Len(coolers) < MaxCoolers
    /\ \E owned \in BOOLEAN : SetGadgets([Gadgets EXCEPT !.coolers = Append(@, owned)])
    /\ last_run' = "setup"
    /\ UNCHANGED <<storeVars, input, before>>

\* The laser may fire this tick only while heat and health stay in the model's range.
InRange(inp) ==
    (inp.action = "Laser" /\ inp.target # NoTarget /\ HasTransform(inp.target)) =>
        /\ heat + Owned(lasers) * LASER_HEAT <= MaxHeat
        /\ HasHealth(inp.target) => health >= Len(lasers) * LASER_DAMAGE

\* One tick of LaserSystem under this tick's input.
LaserRun ==
    /\ ~panicked
    /\ last_run # "laser"
    /\ \E inp \in Inputs : \E raycast \in {inp.target, NoTarget} :
        /\ InRange(inp)
        /\ input' = inp
        /\ SetGadgets(LaserSystem(Gadgets, inp, raycast))
    /\ last_run' = "laser"
    /\ before' = Snapshot
    /\ UNCHANGED storeVars

\* The same tick's CoolerSystem.
CoolerRun ==
    /\ ~panicked
    /\ last_run = "laser"
    /\ SetGadgets(CoolerSystem(Gadgets))
    /\ last_run' = "cooler"
    /\ before' = Snapshot
    /\ UNCHANGED <<storeVars, input>>

HeatNext == PlaceLaser \/ PlaceCooler \/ LaserRun \/ CoolerRun

SpecHeat == GadgetInit /\ [][HeatNext]_vars

\* ------------------------------------------ the gadget systems in a tick
\* setup_systems adds the three systems with no dependency among them: the orders a
\* dispatcher may run them in.
Orders ==
    {<<"miner", "laser", "cooler">>, <<"miner", "cooler", "laser">>,
     <<"laser", "miner", "cooler">>, <<"laser", "cooler", "miner">>,
     <<"cooler", "miner", "laser">>, <<"cooler", "laser", "miner">>}

RunGadget(name, g, inp) ==
    CASE name = "miner" -> MinerSystem(g, inp)
      [] name = "laser" -> LaserSystem(g, inp, inp.target)
      [] name = "cooler" -> CoolerSystem(g)

RECURSIVE RunOrder(_, _, _)
RunOrder(order, g, inp) ==
    IF order = <<>> \/ g.panicked THEN g
    ELSE RunOrder(Tail(order), RunGadget(Head(order), g, inp), inp)

\* The sequences of n gadgets that all sit on the ship, n up to max.
OnShip(max) == UNION {[1..n -> {TRUE}] : n \in 0..max}

\* The turrets' counters: just built, or holding after a long idle time.
Turrets == UNION {[1..n -> {0, TOTAL_TIME + 1}] : n \in 0..MaxMiners}

\* The heats a ship with these gadgets can have at the start of a tick: lasers add
\* 0.3 each, coolers take 0.13 each.
StartHeats(ls, cs) ==
    IF ls = <<>> THEN {0}
    ELSE IF cs = <<>> THEN {h \in 0..MaxHeat : h % LASER_HEAT = 0}
    ELSE 0..MaxHeat

\* The state at the start of some tick: gadgets built, the ship hot or not, a beam
\* drawn by an earlier tick or not.
OrderInit ==
    /\ SetWorldInit(EmptyWorld)
    /\ schedule = <<>>
    /\ input = [action |-> "None", target |-> NoTarget]
    /\ miners \in Turrets
    /\ since_shot = [i \in 1..Len(miners) |-> Never]
    /\ missiles = {}
    /\ lasers \in OnShip(MaxLasers)
    /\ coolers \in OnShip(MaxCoolers)
    /\ lines \in SUBSET (1..Len(lasers))
    /\ heat \in StartHeats(lasers, coolers)
    /\ health = HEALTH
    /\ rotation = [miner |-> "zero", laser |-> "zero"]
    /\ last_run = "none"
    /\ before = [heat |-> 0, health |-> HEALTH, lines |-> {}]

\* One tick of the dispatcher over the three gadget systems, in one of its orders.
GadgetTick ==
    /\ ~panicked
    /\ last_run = "none"
    /\ \E inp \in Inputs : \E order \in Orders :
        /\ input' = inp
        /\ SetGadgets(RunOrder(order, Gadgets, inp))
    /\ last_run' = "tick"
    /\ before' = Snapshot
    /\ UNCHANGED storeVars

OrderNext == GadgetTick

SpecOrder == OrderInit /\ [][OrderNext]_vars

\* ---------------------------------------------------------- properties
Count(log, op, e) == Cardinality({i \in 1..Len(log) : log[i].op = op /\ log[i].e = e})

CountId(log, op, id) ==
    Cardinality({i \in 1..Len(log) : log[i].op = op /\ log[i].e[1] = id})

Has(log, op) == \E i \in 1..Len(log) : log[i].op = op

Max(a, b) == IF a >= b THEN a ELSE b

\* C1: in every flush, an entity is deleted only with its Model's handle cleared, the
\* remove_model call for that handle comes right before the delete, and no handle
\* that was created and not released belongs to a deleted entity.
C1_ReleasedBeforeDelete ==
    /\ \A i \in 1..Len(calls) : calls[i].op = "delete" => calls[i].h = None
    /\ \A i \in 1..Len(calls) :
           calls[i].op = "remove_model" =>
               /\ i < Len(calls)
               /\ calls[i + 1].op = "delete"
               /\ calls[i + 1].e = calls[i].e
    /\ \A h \in DOMAIN mesh_manager : IsAlive(World, mesh_manager[h].owner)

\* A flush released the handle of an entity and then deleted the entity.
C1_Witness ==
    \E i \in 1..Len(calls) :
        /\ calls[i].op = "remove_model"
        /\ i < Len(calls)
        /\ calls[i + 1].op = "delete"
        /\ calls[i + 1].e = calls[i].e
        /\ ~IsAlive(World, calls[i].e)

\* The handle the entity's Model holds when the flush of this step reaches it.
HeldAtFlush(e) ==
    \/ e[1] \in DOMAIN models /\ models[e[1]].model_id # None
    \/ Count(calls', "new_model", e) > 0

\* C2: however many times an entity was marked before a flush, the flush deletes it
\* exactly once and calls remove_model exactly once for its handle (never if it has
\* none); no flush deletes an entity twice.
C2_MarkIdempotent ==
    [][Has(calls', "maintain") =>
          \A id \in Ids :
              LET e == <<id, generations[id]>> IN
              /\ Count(calls', "delete", e) <= 1
              /\ InSeq(to_be_removed, e) =>
                     /\ Count(calls', "delete", e) = 1
                     /\ Count(calls', "remove_model", e) = IF HeldAtFlush(e) THEN 1 ELSE 0
                     /\ ~IsAlive(World', e)]_vars

\* An entity marked more than once was deleted by a flush that released its handle.
C2_Witness ==
    \E i, j \in 1..Len(calls) :
        /\ calls[i].op = "delete"
        /\ calls[i].n >= 2
        /\ calls[j].op = "remove_model"
        /\ calls[j].e = calls[i].e

\* C3 as stated: no update_model without a handle, and as many new_model calls for
\* an id as Inserted events read for it from the Model channel.
C3_OneCreationPerEvent ==
    /\ \A i \in 1..Len(calls) : calls[i].op = "update_model" => calls[i].h # None
    /\ \A id \in Ids : CountId(calls, "new_model", id) = CountId(calls, "inserted", id)

\* C3 amended: no update_model without a handle; a pass calls new_model once for each
\* id named by the Inserted events it read that has a Model and a Transform at the
\* pass, and for no other id.
C3_OneCreationPerInsertedEntity ==
    [][/\ \A i \in 1..Len(calls') : calls'[i].op = "update_model" => calls'[i].h # None
       /\ \A id \in Ids :
              CountId(calls', "new_model", id) =
                  IF /\ Has(calls', "update")
                     /\ id \in Range(model_events)
                     /\ id \in DOMAIN models \cap DOMAIN transforms
                  THEN 1 ELSE 0]_vars

\* A pass read an Inserted event of an id that no longer carries a Model, created
\* no handle for it, and created one for another entity and updated a third.
C3_Witness ==
    /\ \E id \in Ids :
           CountId(calls, "inserted", id) > 0 /\ CountId(calls, "new_model", id) = 0
    /\ Has(calls, "new_model")
    /\ Has(calls, "update_model")

\* C4: an entity whose Model was inserted since the last Model-Sync pass and holds no
\* handle gets exactly one new_model call in the next pass, and its Model holds the
\* handle that call returned.
C4_InsertedGetsHandle ==
    [][Has(calls', "update") =>
          \A id \in Range(model_events) :
              (id \in DOMAIN models /\ models[id].model_id = None) =>
                  /\ CountId(calls', "new_model", id) = 1
                  /\ \A i \in 1..Len(calls') :
                         (calls'[i].op = "new_model" /\ calls'[i].e[1] = id) =>
                             /\ calls'[i].h # None
                             /\ calls'[i].e = <<id, generations[id]>>
                             /\ IsAlive(World', calls'[i].e) =>
                                    models'[id].model_id = calls'[i].h]_vars

\* A pass created a handle for a live entity, whose Model now holds it.
C4_Witness ==
    \E i \in 1..Len(calls) :
        /\ calls[i].op = "new_model"
        /\ IsAlive(World, calls[i].e)
        /\ models[calls[i].e[1]].model_id = calls[i].h
        /\ calls[i].h \in DOMAIN mesh_manager

\* C5 as stated: after a CoolerSystem run, the heat of a ship that owns a cooler is
\* max(0, heat before - rate).
C5_OneRatePerRun ==
    (last_run = "cooler" /\ Owned(coolers) >= 1) =>
        heat = Max(0, before.heat - COOL_RATE)

\* C5 amended: after a CoolerSystem run the heat is max(0, heat before - n * rate),
\* n the number of coolers on the ship; it is never negative.
C5_RatePerCooler ==
    /\ heat >= 0
    /\ last_run = "cooler" => heat = Max(0, before.heat - Owned(coolers) * COOL_RATE)

\* Two coolers took 0.26 off a heat of 0.3 in one run.
C5_Witness ==
    /\ last_run = "cooler"
    /\ Owned(coolers) = 2
    /\ before.heat = LASER_HEAT
    /\ heat = LASER_HEAT - 2 * COOL_RATE

\* C6: a missile is spawned only in a tick whose action is Mining with a target, and
\* a turret's missile comes at least TOTAL_TIME ticks after its previous one.
C6_AtMostOncePerTotalTime ==
    \A m \in missiles :
        /\ input.action = "Mining"
        /\ input.target # NoTarget
        /\ m[2] >= TOTAL_TIME

\* A turret spawned a missile 122 ticks after its previous missile.
C6_Witness == \E m \in missiles : m[2] = TOTAL_TIME + 2

\* C7: a LaserSystem tick with the action asserted and a target that has a Transform
\* adds 0.3 heat per laser on the ship and takes 1 health per laser from the target.
C7_HeatAndDamagePerLaser ==
    (/\ last_run = "laser"
     /\ ~panicked
     /\ input.action = "Laser"
     /\ input.target # NoTarget
     /\ HasTransform(input.target)) =>
        /\ heat = before.heat + Owned(lasers) * LASER_HEAT
        /\ health = before.health -
                        (IF HasHealth(input.target) THEN Len(lasers) * LASER_DAMAGE ELSE 0)
        /\ lines = 1..Len(lasers)

\* One laser, heat 0 and health 10 before the tick: heat 0.3 and health 9 after it.
C7_Witness ==
    /\ last_run = "laser"
    /\ input.action = "Laser"
    /\ Len(lasers) = 1
    /\ lasers[1]
    /\ before.heat = 0
    /\ heat = 30
    /\ before.health = 10
    /\ health = 9

\* C8: after a LaserSystem tick without the action, or without a target, no laser
\* carries a beam line.
C8_NoBeamWithoutFire ==
    (/\ last_run = "laser"
     /\ ~panicked
     /\ input.action # "Laser" \/ input.target = NoTarget) =>
        lines = {}

\* C9: the difficulty level stays within 1..30.
C9_LevelCapped == field.present => field.level >= 1 /\ field.level <= MAX_LEVEL

\* The spawner ran with the level already at the cap.
C9_Witness ==
    /\ field.level = MAX_LEVEL
    /\ Allocations(World) > MAX_LEVEL
    /\ Has(calls, "spawn")

Position(seq, x) == CHOOSE i \in 1..Len(seq) : seq[i] = x

\* The x the spawner reads this tick: after the physics step when physics runs first.
ObservedX(id) ==
    transforms[id].x +
        (IF /\ id \in DOMAIN bodies
            /\ Position(schedule, "physics_system") < Position(schedule, "asteroid_field")
         THEN bodies[id] ELSE 0)

\* C10: a live roster asteroid whose |x| is beyond x_range when the spawner runs is
\* deleted by the flush of that same tick, whatever the countdown.
C10_OutOfRangeDeletedSameTick ==
    [][\A i \in 1..Len(field.asteroids) :
           LET a == field.asteroids[i] IN
           (/\ IsAlive(World, a)
            /\ a[1] \in DOMAIN transforms
            /\ Abs(ObservedX(a[1])) > X_RANGE) =>
               /\ Count(calls', "delete", a) = 1
               /\ ~IsAlive(World', a)]_vars

\* A tick with a positive countdown deleted a roster asteroid.
C10_Witness ==
    \E i \in 1..Len(calls) :
        /\ calls[i].op = "delete"
        /\ InSeq(field.asteroids, calls[i].e)
        /\ ~IsAlive(World, calls[i].e)
        /\ ~Has(calls, "spawn")

\* C11: a spawner tick that starts with the countdown at 0 sets the level to
\* min(level + 1, 30), the countdown to 200 - 6 * (new level), and makes the roster one
\* longer than the pruned roster; from level 1 the result is level 2, countdown 188.
C11_SpawnAtZero ==
    [][(field.present /\ field.tick = 0 /\ ~panicked /\ ~panicked') =>
          /\ field'.level = Min({field.level + 1, MAX_LEVEL})
          /\ field'.tick = TICK_BASE - TICK_FACTOR * field'.level
          /\ Len(field'.asteroids) = Len(RetainAlive(World, field.asteroids)) + 1
          /\ field.level = 1 => (field'.level = 2 /\ field'.tick = 188)]_vars

\* The first spawner tick: level 2, countdown 188, one asteroid on the roster.
C11_Witness ==
    /\ field.level = 2
    /\ field.tick = 188
    /\ Len(field.asteroids) = 1
    /\ Has(calls, "spawn")

\* The roster is the old roster with some entries dropped.
RECURSIVE IsSubSeq(_, _)
IsSubSeq(s, t) ==
    IF s = <<>> THEN TRUE
    ELSE IF t = <<>> THEN FALSE
    ELSE IF Head(s) = Head(t) THEN IsSubSeq(Tail(s), Tail(t))
    ELSE IsSubSeq(s, Tail(t))

\* C12: a spawner tick adds at most one entry to the roster; a tick that starts with a
\* positive countdown decrements it by one, spawns nothing, allocates no entity, adds
\* no roster entry and leaves the level alone.
C12_AtMostOnePerTick ==
    [][(field.present /\ ~panicked /\ ~panicked') =>
          /\ Len(field'.asteroids) <= Len(field.asteroids) + 1
          /\ field.tick > 0 =>
                 /\ field'.tick = field.tick - 1
                 /\ field'.level = field.level
                 /\ ~Has(calls', "spawn")
                 /\ generations' = generations
                 /\ lazy' = <<>>
                 /\ IsSubSeq(field'.asteroids, field.asteroids)]_vars

\* A tick with a positive countdown ran while an asteroid was on the roster.
C12_Witness ==
    /\ field.present
    /\ field.tick > 0
    /\ field.tick < ResetTick(field.level)
    /\ Len(field.asteroids) >= 1
    /\ Has(calls, "update")
    /\ ~Has(calls, "spawn")

\* The entity the handle was created for is alive and its Model holds the handle.
HandleHeld(h) ==
    LET e == mesh_manager[h].owner IN
    /\ IsAlive(World, e)
    /\ e[1] \in DOMAIN models
    /\ models[e[1]].model_id = h

\* C13: once a tick has run, every handle that is still in use is held by the Model
\* of its entity: the handle of a Model that was removed from a live entity has been
\* released by remove_model, like the handle of a deleted entity.
C13_RemovedModelReleased ==
    Has(calls, "update") => \A h \in DOMAIN mesh_manager : HandleHeld(h)

\* Heat added by the LaserSystem run of a tick with this input.
LaserHeat(inp) ==
    IF inp.action = "Laser" /\ inp.target # NoTarget /\ HasTransform(inp.target)
    THEN Owned(lasers) * LASER_HEAT ELSE 0

\* C14 as stated: whatever order the three gadget systems run in within a tick, the
\* resulting state is the same.
C14_GadgetsCommute ==
    [][last_run' = "tick" =>
          \A order \in Orders : RunOrder(order, Gadgets, input') = Gadgets']_vars

\* C14 amended: the orders agree on everything but the ship's heat, and abort
\* together; the heat is max(0, h + l - n * rate) when LaserSystem runs before
\* CoolerSystem and max(0, h - n * rate) + l when it runs after, l the heat the lasers
\* add; these are equal when h >= n * rate or l = 0.
C14_CommuteButHeat ==
    [][last_run' = "tick" =>
          \A order \in Orders :
              LET g == RunOrder(order, Gadgets, input')
                  l == LaserHeat(input')
                  c == Owned(coolers) * COOL_RATE
              IN /\ g.panicked = panicked'
                 /\ ~panicked' =>
                        /\ [g EXCEPT !.heat = 0] = [Gadgets' EXCEPT !.heat = 0]
                        /\ g.heat = IF Position(order, "laser") < Position(order, "cooler")
                                    THEN Max(0, heat + l - c)
                                    ELSE Max(0, heat - c) + l
                        /\ (heat >= c \/ l = 0) => g.heat = heat']_vars

\* A tick ran CoolerSystem before LaserSystem from a heat the coolers floor at zero:
\* the heat after it is what the laser added, more than with the laser first.
C14_Witness ==
    /\ last_run = "tick"
    /\ ~panicked
    /\ input.action = "Laser"
    /\ Owned(lasers) = 1
    /\ before.heat > 0
    /\ before.heat < Owned(coolers) * COOL_RATE
    /\ heat = LASER_HEAT
    /\ lines # {}

\* The place of the first call of this operation in the log (0: none).
First(log, op) ==
    IF Has(log, op) THEN Min({i \in 1..Len(log) : log[i].op = op}) ELSE 0

\* C15: in every step that runs the store's housekeeping (world.maintain), it is the
\* last call of the step and runs once: the dispatch and every release and delete come
\* before it, every entity that was queued has been released (if it held a handle)
\* and then deleted, and the queue is empty.
C15_HousekeepingLast ==
    [][Has(calls', "maintain") =>
          LET k == First(calls', "maintain") IN
          /\ k = Len(calls')
          /\ to_be_removed' = <<>>
          /\ killed' = {}
          /\ \A j \in 1..Len(to_be_removed) :
                 LET e == to_be_removed[j] IN
                 /\ \E i \in 1..(k - 1) :
                        /\ calls'[i].op = "delete"
                        /\ calls'[i].e = e
                        /\ HeldAtFlush(e) =>
                               (i > 1 /\ calls'[i - 1].op = "remove_model"
                                      /\ calls'[i - 1].e = e)
                 /\ ~IsAlive(World', e)]_vars

\* A tick dispatched the systems, released and deleted a queued entity, and ran the
\* housekeeping last.
C15_Witness ==
    /\ First(calls, "update") = 1
    /\ \E i \in 1..Len(calls) :
           /\ calls[i].op = "remove_model"
           /\ i > First(calls, "update_model")
           /\ First(calls, "update_model") > 0
           /\ calls[i + 1].op = "delete"
    /\ calls[Len(calls)].op = "maintain"

\* C16: a LaserSystem tick with the action asserted and a target that is dead or has
\* no Transform completes without aborting and treats the target as not found: no
\* beam line, no heat added, no damage done.
C16_StaleTargetIsAbsent ==
    (/\ last_run = "laser"
     /\ input.action = "Laser"
     /\ ~HasTransform(input.target)) =>
        /\ ~panicked
        /\ lines = {}
        /\ heat = before.heat
        /\ health = before.health

\* The spawner's lookup of a roster entity's position finds a Transform.
C16_RosterHasTransform ==
    /\ ~panicked
    /\ \A i \in 1..Len(field.asteroids) :
           IsAlive(World, field.asteroids[i]) => field.asteroids[i][1] \in DOMAIN transforms

\* The Transform of this id is modified before the Model-Sync pass of the next tick:
\* a Modified event is pending, or physics will move it.
ModifiedInTick(id) ==
    \/ id \in Range(transform_events)
    \/ id \in DOMAIN bodies \cap DOMAIN transforms

\* C18: in a Model-Sync pass, an entity whose Model insertion and Transform
\* modification are both observed gets its handle from new_model and then, later in
\* the same pass, update_model for that handle.
C18_InsertedThenUpdated ==
    [][Has(calls', "update") =>
          \A id \in Range(model_events) \cap DOMAIN models \cap DOMAIN transforms :
              ModifiedInTick(id) =>
                  \E i, j \in 1..Len(calls') :
                      /\ i < j
                      /\ calls'[i].op = "new_model"
                      /\ calls'[i].e = <<id, generations[id]>>
                      /\ calls'[j].op = "update_model"
                      /\ calls'[j].e = calls'[i].e
                      /\ calls'[j].h = calls'[i].h
                      /\ calls'[j].h # None]_vars

\* A pass created the handle of an entity and then updated it.
C18_Witness ==
    \E i, j \in 1..Len(calls) :
        /\ i < j
        /\ calls[i].op = "new_model"
        /\ calls[j].op = "update_model"
        /\ calls[j].e = calls[i].e
        /\ calls[j].h = calls[i].h
        /\ \A k \in 1..Len(calls) : calls[k].op = "maintain" => k > j

\* In every tick, physics moves an entity whose Model holds a handle and the same
\* tick's pass calls update_model for that handle.
PhysicsWritesPushed ==
    [][Has(calls', "update") =>
          \A id \in DOMAIN bodies \cap DOMAIN transforms \cap DOMAIN models :
              models[id].model_id # None =>
                  \E j \in 1..Len(calls') :
                      /\ calls'[j].op = "update_model"
                      /\ calls'[j].e = <<id, generations[id]>>
                      /\ calls'[j].h = models[id].model_id]_vars

\* C19: the ship's heat is never negative; a LaserSystem run never lowers it and a
\* CoolerSystem run never raises it.
C19_HeatNonNegative ==
    /\ heat >= 0
    /\ before.heat >= 0
    /\ last_run = "laser" => heat >= before.heat
    /\ last_run = "cooler" => heat <= before.heat

\* A cooler met a heat below its rate and left the ship at zero.
C19_Witness ==
    /\ last_run = "cooler"
    /\ Owned(coolers) >= 1
    /\ before.heat > 0
    /\ before.heat < COOL_RATE
    /\ heat = 0

\* The tick's input commands the turrets: the action is Mining and there is a target.
Commanded(inp) == inp.action = "Mining" /\ inp.target # NoTarget

\* C20: in a MinerSystem run a turret's counter goes up by one while it is at most
\* TOTAL_TIME and then holds at TOTAL_TIME + 1; a run that finds it above TOTAL_TIME
\* under the command spawns exactly one missile for it and resets it to 0, and no
\* other run spawns one; a turret commanded in two runs in a row fires in the second
\* exactly TOTAL_TIME + 2 runs after its previous missile.
C20_CounterProtocol ==
    [][last_run' = "miner" =>
          \A i \in 1..Len(miners) :
              LET c == miners[i]
                  fire == c > TOTAL_TIME /\ Commanded(input')
                  shots == {m \in missiles' : m[1] = i}
              IN /\ c <= TOTAL_TIME + 1
                 /\ miners'[i] <= TOTAL_TIME + 1
                 /\ c <= TOTAL_TIME => (miners'[i] = c + 1 /\ shots = {})
                 /\ (c > TOTAL_TIME /\ ~fire) => (miners'[i] = c /\ shots = {})
                 /\ fire => (miners'[i] = 0 /\ Cardinality(shots) = 1)
                 /\ (fire /\ last_run = "miner" /\ Commanded(input)
                          /\ since_shot[i] # Never) =>
                        shots = {<<i, TOTAL_TIME + 2>>}]_vars

\* A turret under the command fired TOTAL_TIME + 2 runs after its previous missile.
C20_Witness ==
    /\ last_run = "miner"
    /\ Commanded(input)
    /\ \E i \in 1..Len(miners) :
           /\ miners[i] = 0
           /\ <<i, TOTAL_TIME + 2>> \in missiles

\* A turret waits at TOTAL_TIME + 1 for the command.
C20_Holding ==
    \E i \in 1..Len(miners) :
        miners[i] = TOTAL_TIME + 1 /\ since_shot[i] = LongAgo /\ ~Commanded(input)

\* No entry of the sequence occurs twice.
NoDup(seq) == \A i, j \in 1..Len(seq) : seq[i] = seq[j] => i = j

\* C21: the removal queue never holds an entity twice; a step that does not flush
\* leaves it as it was or appends one entity that was not in it (first-mark order);
\* a completed flush leaves it empty; every queued entity is alive, so no flush meets
\* an entity an earlier flush deleted.
C21_QueueIsOrderedSet ==
    [][/\ NoDup(to_be_removed')
       /\ Has(calls', "maintain") => to_be_removed' = <<>>
       /\ ~Has(calls', "maintain") =>
              \/ to_be_removed' = to_be_removed
              \/ \E id \in Ids :
                     /\ ~InSeq(to_be_removed, <<id, generations[id]>>)
                     /\ to_be_removed' = Append(to_be_removed, <<id, generations[id]>>)
       /\ \A i \in 1..Len(to_be_removed') : IsAlive(World', to_be_removed'[i])]_vars

\* Two entities are queued in the order of their first marks, the first marked twice.
C21_Witness ==
    /\ Len(to_be_removed) = 2
    /\ Marks(World, to_be_removed[1]) = 2
    /\ Marks(World, to_be_removed[2]) = 1

\* C22: the countdown stays within 0..188; at a reset the product level * 6 does not
\* exceed 200, so the 16-bit subtraction does not wrap, and the reset value is
\* 200 - 6 * level, at least 20.
C22_ResetBoundedBelow ==
    field.present =>
        /\ field.tick >= 0
        /\ field.tick <= TICK_BASE - 2 * TICK_FACTOR
        /\ Has(calls, "spawn") =>
               /\ field.level * TICK_FACTOR <= TICK_BASE
               /\ field.tick = TICK_BASE - TICK_FACTOR * field.level
               /\ field.tick >= TICK_BASE - MAX_LEVEL * TICK_FACTOR
               /\ field.tick >= 20

\* A spawn at the level cap reset the countdown to its minimum, 20.
C22_Witness ==
    /\ Has(calls, "spawn")
    /\ field.level = MAX_LEVEL
    /\ field.tick = 20

\* The number of equally likely draws at this level that pick the attack trajectory.
AttackDraws(level) == Cardinality({d \in 0..(DrawRange(level) - 1) : IsAttack(d)})

\* C23 as stated: at a spawn, the attack fraction AttackDraws / DrawRange at the
\* spawn's level is not greater than at any lower level.
C23_AttackFractionDecreases ==
    (field.present /\ Has(calls, "spawn")) =>
        \A l1 \in 1..(field.level - 1) :
            AttackDraws(field.level) * DrawRange(l1) <=
                AttackDraws(l1) * DrawRange(field.level)

\* C23 amended: at a spawn at level l, 4 of the 35 - l equally likely draws pick the
\* attack trajectory, so the attack fraction 4 / (35 - l) is greater than at every
\* lower level: it rises from 4/33 at level 2 to 4/5 at level 30.
C23_AttackFractionIncreases ==
    (field.present /\ Has(calls, "spawn")) =>
        /\ DrawRange(field.level) = MAX_LEVEL + ATTACK_BIAS - field.level
        /\ DrawRange(field.level) > ATTACK_DRAWS
        /\ AttackDraws(field.level) = ATTACK_DRAWS
        /\ \A l1 \in 1..(field.level - 1) :
               AttackDraws(field.level) * DrawRange(l1) >
                   AttackDraws(l1) * DrawRange(field.level)

\* A spawn at the level cap, where 4 of 5 draws attack, sent its asteroid to attack.
C23_Witness ==
    /\ Has(calls, "spawn")
    /\ field.level = MAX_LEVEL
    /\ AttackDraws(field.level) * 5 = 4 * DrawRange(field.level)
    /\ LET e == field.asteroids[Len(field.asteroids)] IN
       e[1] \in DOMAIN transforms /\ transforms[e[1]].y = "attack"

\* C24: after a spawner tick every roster entry is an entity that was alive when the
\* tick started or the asteroid the tick spawned; an entry that was dead when the tick
\* started is gone; and the tick's position lookups all found a Transform.
C24_RosterPruned ==
    [][(field.present /\ Has(calls', "update")) =>
          /\ ~panicked'
          /\ \A i \in 1..Len(field'.asteroids) :
                 LET e == field'.asteroids[i] IN
                 \/ IsAlive(World, e) /\ InSeq(field.asteroids, e)
                 \/ Count(calls', "spawn", e) = 1 /\ i = Len(field'.asteroids)
          /\ \A i \in 1..Len(field.asteroids) :
                 ~IsAlive(World, field.asteroids[i]) =>
                     ~InSeq(field'.asteroids, field.asteroids[i])]_vars

\* An asteroid was deleted by an earlier flush and the roster, not empty, no longer
\* holds a dead entity.
C24_Witness ==
    /\ Has(calls, "update")
    /\ ~Has(calls, "delete")
    /\ cache # <<>>
    /\ Len(field.asteroids) >= 1
    /\ \A i \in 1..Len(field.asteroids) : IsAlive(World, field.asteroids[i])

\* The handles held by the Models of live entities.
HeldHandles(w) ==
    {w.models[id].model_id : id \in w.alive \cap DOMAIN w.models} \ {None}

\* C25: after every step the handles created and not released are the handles held
\* by Models of live entities, each by one Model; new_model is called only for a Model
\* that holds no handle, once, and returns a handle not in use; remove_model is called
\* only for a handle in use, once.
C25_HandleAccounting ==
    [][/\ DOMAIN mesh_manager' = HeldHandles(World')
       /\ \A a, b \in alive' \cap DOMAIN models' :
              (models'[a].model_id = models'[b].model_id /\ models'[a].model_id # None)
                  => a = b
       /\ \A i \in 1..Len(calls') :
              calls'[i].op = "new_model" =>
                  /\ calls'[i].e[1] \in DOMAIN models
                  /\ models[calls'[i].e[1]].model_id = None
                  /\ CountId(calls', "new_model", calls'[i].e[1]) = 1
                  /\ calls'[i].h \notin DOMAIN mesh_manager
                  /\ \A j \in 1..Len(calls') :
                         (calls'[j].op = "new_model" /\ calls'[j].h = calls'[i].h) => j = i
       /\ \A i \in 1..Len(calls') :
              calls'[i].op = "remove_model" =>
                  /\ \/ calls'[i].h \in DOMAIN mesh_manager
                     \/ \E j \in 1..(i - 1) :
                            calls'[j].op = "new_model" /\ calls'[j].h = calls'[i].h
                  /\ \A j \in 1..Len(calls') :
                         (calls'[j].op = "remove_model" /\ calls'[j].h = calls'[i].h)
                             => j = i]_vars

\* After a tick that released one handle, two live entities hold one handle each.
C25_Witness ==
    /\ Has(calls, "update")
    /\ Has(calls, "remove_model")
    /\ Cardinality(HeldHandles(World)) = 2
    /\ DOMAIN mesh_manager = HeldHandles(World)

\* ------------------------------------------------- stale removal marks
\* ECS::mark_for_removal with an Entity value the caller holds: the entity that id
\* names now, or one that id named before a flush deleted it.
MarkEntity(id, gen) ==
    /\ ~panicked
    /\ gen <= generations[id]
    /\ ~InSeq(to_be_removed, <<id, gen>>)
    /\ Len(to_be_removed) < MaxQueue
    /\ SetWorld(mark_for_removal(Fresh(World), <<id, gen>>))
    /\ UNCHANGED <<schedule, gadgetVars>>

StaleNext ==
    \/ Update
    \/ CreateAsteroid
    \/ \E id \in Ids : Click(id)
    \/ \E id \in Ids, gen \in 1..MaxCreate : MarkEntity(id, gen)

SpecStale == Init /\ [][StaleNext]_vars

\* The queue of w holds an entity that is not alive.
HasStale(w) == \E k \in 1..Len(w.to_be_removed) : ~IsAlive(w, w.to_be_removed[k])

\* The position of the first queued entity of w that is not alive.
FirstStale(w) ==
    Min({k \in 1..Len(w.to_be_removed) : ~IsAlive(w, w.to_be_removed[k])})

\* The entities of the "delete" calls of log, in order.
Deleted(log) == [i \in 1..Len(SelectSeq(log, LAMBDA c : c.op = "delete")) |->
                     SelectSeq(log, LAMBDA c : c.op = "delete")[i].e]

\* C26: a flush aborts exactly when the queue holds an entity that is not alive; at
\* the abort the entries before the first such entity have been released and deleted,
\* in order, the queue is not cleared and the housekeeping pass has not run; a flush
\* whose queued entities are all alive does not abort, clears the queue and runs the
\* housekeeping pass.
C26_FlushAbortsAtStale ==
    [][/\ panicked' =>
              /\ HasStale(World')
              /\ Deleted(calls') = SubSeq(to_be_removed', 1, FirstStale(World') - 1)
              /\ killed' = {to_be_removed'[k][1] : k \in 1..(FirstStale(World') - 1)}
              /\ \A i \in 1..Len(calls') :
                     (calls'[i].op = "delete" /\ calls'[i].h # None) =>
                         /\ i > 1
                         /\ calls'[i - 1].op = "remove_model"
                         /\ calls'[i - 1].h = calls'[i].h
                         /\ calls'[i].h \notin DOMAIN mesh_manager'
              /\ ~Has(calls', "maintain")
              /\ alive \subseteq alive'
       /\ Has(calls', "maintain") =>
              /\ ~HasStale(World)
              /\ ~panicked'
              /\ to_be_removed' = <<>>
       /\ Has(calls', "update") => (panicked' \/ Has(calls', "maintain"))
       /\ (Has(calls', "update") /\ HasStale(World)) => panicked']_vars

\* A tick has aborted at a stale entity queued after a live one, whose handle was
\* released and which was deleted before the abort.
C26_Witness ==
    /\ panicked
    /\ Has(calls, "update")
    /\ Has(calls, "remove_model")
    /\ Has(calls, "delete")
    /\ FirstStale(World) = 2
    /\ killed # {}

====
